---- MODULE Spec2Model ----
(***************************************************************************)
(* Model of bibletext/models/bibles.py: the BiblePassageManager (verse and *)
(* passage lookup), the per-instance verse and book navigation of          *)
(* VerseText, and the register_version registry.                           *)
(***************************************************************************)
EXTENDS Integers, Sequences, FiniteSets, TLC

VARIABLES translation, store, op, out,
          inst, _next_verse, _prev_verse, queries, ret, trip, bookLookups,
          hasVersions, versions, lastArgs

vars == <<translation, store, op, out,
          inst, _next_verse, _prev_verse, queries, ret, trip, bookLookups,
          hasVersions, versions, lastArgs>>

resolverVars == <<op, out>>
navVars == <<inst, _next_verse, _prev_verse, queries, ret, trip, bookLookups>>
registryVars == <<hasVersions, versions, lastArgs>>

----------------------------------------------------------------------------
(* Bounds of the model and program constants.                              *)

\* Number of canonical books: the largest Book pk next_book_pk lets through.
NumBooks == 66
\* Shape of the canon the model's reference parser knows.
ChaptersPerBook == 2
VersesPerChapter == 2
\* The verses of the canon the model loads and refers to: the first MaxPk.
MaxPk == 5
\* Storage queries one instance may issue per navigation helper.
MaxCalls == 2
\* Translations (models) that may be registered, and arguments per call.
NumVersions == 4
MaxArgs == 2

----------------------------------------------------------------------------
(* Python values.                                                          *)

\* None, as a value comparable with verse and book records.
None == [kind |-> "None"]
\* An attribute not set on the instance (hasattr is False).
Unset == [kind |-> "Unset"]
\* translation = 'KJV' of class KJV.
KJV == <<"K", "J", "V">>
\* translation = None of VerseText: a falsy value.
NoTranslation == << >>
\* end_reference=None: a falsy value.
NoReference == << >>

Book(id) == [kind |-> "Book", id |-> id]
Books == {Book(id) : id \in 1..NumBooks}

Row(pk, book, chapter, verse) ==
    [kind |-> "Verse", pk |-> pk, book |-> book, chapter |-> chapter, verse |-> verse]

----------------------------------------------------------------------------
(* The reference parser (python-bible): the canon it knows, the text of a  *)
(* reference, bible.Verse and len(bible.Passage).                          *)

\* The n-th verse of the parser's canon in traversal order (book, chapter, verse).
VerseAt(n) ==
    [book    |-> ((n - 1) \div (ChaptersPerBook * VersesPerChapter)) + 1,
     chapter |-> (((n - 1) \div VersesPerChapter) % ChaptersPerBook) + 1,
     verse   |-> ((n - 1) % VersesPerChapter) + 1]

Digit(n) == <<"1", "2", "3", "4", "5", "6", "7", "8", "9">>[n]

BookAbbr(b) ==
    CASE b = 1 -> <<"G", "e", "n">>
      [] b = 2 -> <<"E", "x", "o">>
      [] OTHER -> <<"L", "e", "v">>

\* 'Gen 1:1', character by character.
RefText(t) == BookAbbr(t.book) \o <<" ", Digit(t.chapter), ":", Digit(t.verse)>>

HasSuffix(s, suffix) ==
    /\ Len(s) >= Len(suffix)
    /\ SubSeq(s, Len(s) - Len(suffix) + 1, Len(s)) = suffix

\* The parser reads the translation off the end of the text and drops it.
RECURSIVE StripTranslation(_)
StripTranslation(s) ==
    IF HasSuffix(s, <<" ">> \o KJV)
    THEN StripTranslation(SubSeq(s, 1, Len(s) - (Len(KJV) + 1)))
    ELSE s

\* bible.Verse(reference) accepts the text.
Parses(reference) ==
    \E n \in 1..MaxPk : RefText(VerseAt(n)) = StripTranslation(reference)

\* The position in the canon of the verse bible.Verse(reference) names.
CanonOrdinal(reference) ==
    CHOOSE n \in 1..MaxPk : RefText(VerseAt(n)) = StripTranslation(reference)

\* bible.Verse(reference): book, chapter and verse.
BibleVerse(reference) == VerseAt(CanonOrdinal(reference))

\* Passage.__len__ of bible.Passage(start, end): verses spanned, both ends included.
PassageLen(start, end) == CanonOrdinal(end) - CanonOrdinal(start) + 1

----------------------------------------------------------------------------
(* The verse table of one translation.                                     *)

\* The row a fixture holds for the n-th verse: its pk is its position.
FixtureRow(n) == Row(n, VerseAt(n).book, VerseAt(n).chapter, VerseAt(n).verse)

Pks(rows) == {r.pk : r \in rows}

\* order_by('id'): the rows in ascending pk.
RECURSIVE OrderById(_)
OrderById(rows) ==
    IF rows = {} THEN << >>
    ELSE LET first == CHOOSE r \in rows : \A q \in rows : r.pk <= q.pk
         IN <<first>> \o OrderById(rows \ {first})

\* queryset[:n] for n >= 0.
Slice(seq, n) == SubSeq(seq, 1, IF n < Len(seq) THEN n ELSE Len(seq))

----------------------------------------------------------------------------
(* BiblePassageManager.                                                    *)

\* reference[-3] raises IndexError.
IndexFails(reference, code) == code # NoTranslation /\ Len(reference) < 3

\* if self.model.translation and reference[-3] != self.model.translation:
\*     reference += ' ' + self.model.translation
\* reference[-3] is one character, compared with the whole code.
AddTranslation(reference, code) ==
    IF code # NoTranslation /\ <<reference[Len(reference) - 2]>> # code
    THEN reference \o <<" ">> \o code
    ELSE reference

Outcome(kind, rows, sent) == [kind |-> kind, rows |-> rows, sent |-> sent]

\* get(book__pk=.., chapter=.., verse=..)
GetVerse(rows, t) ==
    {r \in rows : r.book = t.book /\ r.chapter = t.chapter /\ r.verse = t.verse}

\* BiblePassageManager.verse(reference)
verse(rows, code, reference) ==
    IF IndexFails(reference, code) THEN Outcome("IndexError", << >>, << >>)
    ELSE LET sent == AddTranslation(reference, code) IN
         IF ~Parses(sent) THEN Outcome("InvalidReference", << >>, <<sent>>)
         ELSE LET found == GetVerse(rows, BibleVerse(sent)) IN
              IF found = {} THEN Outcome("DoesNotExist", << >>, <<sent>>)
              ELSE Outcome("ok", <<CHOOSE r \in found : TRUE>>, <<sent>>)

\* filter(pk__gt=start_pk): the start row itself is left out.
FilterAfterPk(rows, start_pk) == {r \in rows : r.pk > start_pk}

\* filter(pk__gte=start_pk)
FilterFromPk(rows, start_pk) == {r \in rows : r.pk >= start_pk}

\* BiblePassageManager.passage(start_reference, end_reference=None)
passage(rows, code, start_reference, end_reference) ==
    LET end0 == IF end_reference = NoReference THEN start_reference ELSE end_reference IN
    IF IndexFails(start_reference, code) \/ IndexFails(end0, code)
    THEN Outcome("IndexError", << >>, << >>)
    ELSE LET start == AddTranslation(start_reference, code)
             end == AddTranslation(end0, code)
             in_the_beginning ==
                 IF code # NoTranslation
                 THEN RefText(VerseAt(1)) \o <<" ">> \o code
                 ELSE RefText(VerseAt(1))
         IN
         IF ~(Parses(start) /\ Parses(end))
         THEN Outcome("InvalidReference", << >>, <<start, end>>)
         ELSE LET start_pk == PassageLen(in_the_beginning, start)
                  length == PassageLen(start, end)
              IN
              IF length < 0 THEN Outcome("ValueError", << >>, <<start, end>>)
              ELSE Outcome("ok",
                           Slice(OrderById(FilterFromPk(rows, start_pk)), length),
                           <<start, end>>)

----------------------------------------------------------------------------
(* State machine of the resolver: the table is loaded row by row, and      *)
(* callers resolve references against whatever is stored.                  *)

\* Reference texts callers pass: every verse of the canon, with and without
\* the translation qualifier, and a text too short to hold a reference.
References ==
    {RefText(VerseAt(n)) : n \in 1..MaxPk}
        \cup {RefText(VerseAt(n)) \o <<" ">> \o KJV : n \in 1..MaxPk}
        \cup {<<"?">>}

Idle == [name |-> "idle", start |-> NoReference, end |-> NoReference]
NoOutcome == Outcome("idle", << >>, << >>)

NavIdle ==
    /\ inst = None
    /\ _next_verse = Unset
    /\ _prev_verse = Unset
    /\ queries = [h \in {"next_verse", "prev_verse", "next_book", "prev_book"} |-> 0]
    /\ ret = [helper |-> "idle", kind |-> "idle", value |-> None, queried |-> 0]
    /\ trip = [of |-> None, prev |-> "idle", next |-> "idle", value |-> None]
    /\ bookLookups = {}

RegistryIdle ==
    /\ hasVersions = FALSE
    /\ versions = << >>
    /\ lastArgs = << >>

Init ==
    /\ translation \in {NoTranslation, KJV}
    /\ store = {}
    /\ op = Idle
    /\ out = NoOutcome
    /\ NavIdle
    /\ RegistryIdle

\* A row of the translation is saved (data load).
LoadVerse(n) ==
    /\ op = Idle
    /\ inst = None
    /\ trip.of = None
    /\ n \notin Pks(store)
    /\ store' = store \cup {FixtureRow(n)}
    /\ UNCHANGED <<translation, op, out, navVars, registryVars>>

CallVerse(reference) ==
    /\ op = Idle
    /\ op' = [name |-> "verse", start |-> reference, end |-> NoReference]
    /\ out' = verse(store, translation, reference)
    /\ UNCHANGED <<translation, store, navVars, registryVars>>

CallPassage(start_reference, end_reference) ==
    /\ op = Idle
    /\ op' = [name |-> "passage", start |-> start_reference, end |-> end_reference]
    /\ out' = passage(store, translation, start_reference, end_reference)
    /\ UNCHANGED <<translation, store, navVars, registryVars>>

\* The caller takes the result; the calls are synchronous, one at a time.
Return ==
    /\ op # Idle
    /\ op' = Idle
    /\ out' = NoOutcome
    /\ UNCHANGED <<translation, store, navVars, registryVars>>

Next ==
    \/ \E n \in 1..MaxPk : LoadVerse(n)
    \/ Return
    \/ \E reference \in References : CallVerse(reference)
    \/ \E s \in References, e \in References \cup {NoReference} : CallPassage(s, e)

Spec == Init /\ [][Next]_vars

----------------------------------------------------------------------------
(* VerseText: navigation from one instance.                                *)

Helpers == {"next_verse", "prev_verse", "next_book", "prev_book"}

\* self.__class__.objects.get(pk=..)
GetByPk(rows, pk) == {r \in rows : r.pk = pk}

\* What a property call did: the attribute it leaves on the instance, how it
\* ended ("return" or the exception raised), the value returned, and the
\* storage queries it issued.
Result(cache, kind, value, queried) ==
    [cache |-> cache, kind |-> kind, value |-> value, queried |-> queried]

\* next_verse with the hasattr test left out: every call runs the query.
next_verse_uncached(rows, self, cache) ==
    LET found == GetByPk(rows, self.pk + 1) IN
    IF found = {} THEN Result(None, "return", None, 1)
    ELSE LET row == CHOOSE r \in found : TRUE IN Result(row, "return", row, 1)

\* VerseText.next_verse
next_verse(rows, self, cache) ==
    IF cache # Unset THEN Result(cache, "return", cache, 0)
    ELSE LET found == GetByPk(rows, self.pk + 1) IN
         IF found = {} THEN Result(None, "return", None, 1)
         ELSE LET row == CHOOSE r \in found : TRUE IN Result(row, "return", row, 1)

\* VerseText.prev_verse: the get is outside any try.
prev_verse(rows, self, cache) ==
    IF cache # Unset THEN Result(cache, "return", cache, 0)
    ELSE IF self.book = 1 /\ self.chapter = 1 /\ self.verse = 1
    THEN Result(None, "return", None, 0)
    ELSE LET found == GetByPk(rows, self.pk - 1) IN
         IF found = {} THEN Result(Unset, "DoesNotExist", None, 1)
         ELSE LET row == CHOOSE r \in found : TRUE IN Result(row, "return", row, 1)

\* next_book_pk letting one id too many through.
next_book_pk_past_end(self) ==
    IF self.book + 1 <= NumBooks + 1 THEN self.book + 1 ELSE 0

\* VerseText.next_book_pk; None is written 0, which is as falsy as None.
next_book_pk(self) ==
    IF self.book + 1 <= NumBooks THEN self.book + 1 ELSE 0

\* VerseText.prev_book_pk
prev_book_pk(self) ==
    IF self.book - 1 > 0 THEN self.book - 1 ELSE 0

\* self.books.objects.get(pk=..) on the Book table.
GetBook(pk) ==
    IF Book(pk) \in Books THEN Result(Unset, "return", Book(pk), 1)
    ELSE Result(Unset, "DoesNotExist", None, 1)

\* VerseText.next_book: nothing is kept on the instance.
next_book(self) ==
    IF next_book_pk(self) # 0 THEN GetBook(next_book_pk(self))
    ELSE Result(Unset, "return", None, 0)

\* VerseText.prev_book
prev_book(self) ==
    IF prev_book_pk(self) # 0 THEN GetBook(prev_book_pk(self))
    ELSE Result(Unset, "return", None, 0)

\* The expression v.prev_verse.next_verse, each property read on a fresh instance.
RoundTripOf(rows, v) ==
    LET p == prev_verse(rows, v, Unset) IN
    IF p.kind # "return"
    THEN [of |-> v, prev |-> p.kind, next |-> "idle", value |-> None]
    ELSE IF p.value = None
    THEN [of |-> v, prev |-> "return", next |-> "AttributeError", value |-> None]
    ELSE LET n == next_verse(rows, p.value, Unset) IN
         [of |-> v, prev |-> "return", next |-> n.kind, value |-> n.value]

NoTrip == [of |-> None, prev |-> "idle", next |-> "idle", value |-> None]
NoReturn == [helper |-> "idle", kind |-> "idle", value |-> None, queried |-> 0]

Returned(helper, r) ==
    [helper |-> helper, kind |-> r.kind, value |-> r.value, queried |-> r.queried]

\* A verse is read from the table: a new instance, nothing cached on it.
Fetch(row) ==
    /\ inst = None
    /\ trip = NoTrip
    /\ row \in store
    /\ inst' = row
    /\ UNCHANGED <<translation, store, resolverVars, registryVars,
                   _next_verse, _prev_verse, queries, ret, trip, bookLookups>>

\* A verse instance of book b built in memory: chapter and verse take their
\* defaults and the instance has no pk yet (written 0).
NewVerse(b) ==
    /\ inst = None
    /\ inst' = Row(0, b, 1, 1)
    /\ UNCHANGED <<translation, store, resolverVars, registryVars,
                   _next_verse, _prev_verse, queries, ret, trip, bookLookups>>

NextVerse ==
    /\ inst # None
    /\ LET r == next_verse(store, inst, _next_verse) IN
       /\ queries["next_verse"] + r.queried <= MaxCalls
       /\ _next_verse' = r.cache
       /\ queries' = [queries EXCEPT !["next_verse"] = @ + r.queried]
       /\ ret' = Returned("next_verse", r)
    /\ UNCHANGED <<translation, store, resolverVars, registryVars,
                   inst, _prev_verse, trip, bookLookups>>

PrevVerse ==
    /\ inst # None
    /\ LET r == prev_verse(store, inst, _prev_verse) IN
       /\ queries["prev_verse"] + r.queried <= MaxCalls
       /\ _prev_verse' = r.cache
       /\ queries' = [queries EXCEPT !["prev_verse"] = @ + r.queried]
       /\ ret' = Returned("prev_verse", r)
    /\ UNCHANGED <<translation, store, resolverVars, registryVars,
                   inst, _next_verse, trip, bookLookups>>

NextBook ==
    /\ inst # None
    /\ LET r == next_book(inst) IN
       /\ queries["next_book"] + r.queried <= MaxCalls
       /\ queries' = [queries EXCEPT !["next_book"] = @ + r.queried]
       /\ bookLookups' = IF r.queried > 0
                         THEN bookLookups \cup {next_book_pk(inst)} ELSE bookLookups
       /\ ret' = Returned("next_book", r)
    /\ UNCHANGED <<translation, store, resolverVars, registryVars,
                   inst, _next_verse, _prev_verse, trip>>

PrevBook ==
    /\ inst # None
    /\ LET r == prev_book(inst) IN
       /\ queries["prev_book"] + r.queried <= MaxCalls
       /\ queries' = [queries EXCEPT !["prev_book"] = @ + r.queried]
       /\ bookLookups' = IF r.queried > 0
                         THEN bookLookups \cup {prev_book_pk(inst)} ELSE bookLookups
       /\ ret' = Returned("prev_book", r)
    /\ UNCHANGED <<translation, store, resolverVars, registryVars,
                   inst, _next_verse, _prev_verse, trip>>

\* v.prev_verse.next_verse is evaluated for a stored verse v.
RoundTrip(v) ==
    /\ inst = None
    /\ trip = NoTrip
    /\ v \in store
    /\ trip' = RoundTripOf(store, v)
    /\ UNCHANGED <<translation, store, resolverVars, registryVars,
                   inst, _next_verse, _prev_verse, queries, ret, bookLookups>>

\* The instance, with what it cached, is dropped.
Release ==
    /\ inst # None \/ trip # NoTrip
    /\ inst' = None
    /\ _next_verse' = Unset
    /\ _prev_verse' = Unset
    /\ queries' = [h \in Helpers |-> 0]
    /\ ret' = NoReturn
    /\ trip' = NoTrip
    /\ bookLookups' = {}
    /\ UNCHANGED <<translation, store, resolverVars, registryVars>>

InitNav ==
    /\ Init
    /\ translation = KJV

NextNav ==
    \/ \E n \in 1..MaxPk : LoadVerse(n)
    \/ \E row \in store : Fetch(row)
    \/ NextVerse
    \/ PrevVerse
    \/ NextBook
    \/ PrevBook
    \/ \E v \in store : RoundTrip(v)
    \/ Release

SpecNav == InitNav /\ [][NextNav]_vars

NextBookNav ==
    \/ \E b \in 1..NumBooks : NewVerse(b)
    \/ NextBook
    \/ PrevBook
    \/ Release

SpecBook == InitNav /\ [][NextBookNav]_vars

----------------------------------------------------------------------------
(* VerseText.register_version and the list cls.versions.                   *)

\* The translation models that can be registered; KJV is the first.
Versions == 1..NumVersions
KJVModel == CHOOSE version \in Versions : \A other \in Versions : version <= other

\* ContentType.objects.get_for_model(version).pk: one content type per model.
ContentTypePk(version) == 10 * version

Range(seq) == {seq[i] : i \in 1..Len(seq)}

\* The loop with the membership test left out.
RECURSIVE AppendAll(_, _)
AppendAll(list, args) ==
    IF args = << >> THEN list
    ELSE AppendAll(Append(list, ContentTypePk(Head(args))), Tail(args))

\* for version in versions: append its content type pk unless it is in the list.
RECURSIVE AppendNew(_, _)
AppendNew(list, args) ==
    IF args = << >> THEN list
    ELSE LET pk == ContentTypePk(Head(args)) IN
         AppendNew(IF pk \notin Range(list) THEN Append(list, pk) ELSE list, Tail(args))

\* VerseText.register_version(*versions)
register_version(has, list, args) == AppendNew(IF has THEN list ELSE << >>, args)

\* The argument tuples of a call: up to MaxArgs versions, repeats allowed.
ArgTuples == UNION {[1..n -> Versions] : n \in 0..MaxArgs}

\* VerseText.register_version(KJV) at the end of the module.
ModuleImport ==
    /\ ~hasVersions
    /\ hasVersions' = TRUE
    /\ versions' = register_version(hasVersions, versions, <<KJVModel>>)
    /\ lastArgs' = <<KJVModel>>
    /\ UNCHANGED <<translation, store, resolverVars, navVars>>

RegisterVersion(args) ==
    /\ hasVersions
    /\ hasVersions' = TRUE
    /\ versions' = register_version(hasVersions, versions, args)
    /\ lastArgs' = args
    /\ UNCHANGED <<translation, store, resolverVars, navVars>>

NextReg ==
    \/ ModuleImport
    \/ \E args \in ArgTuples : RegisterVersion(args)

SpecReg == InitNav /\ [][NextReg]_vars

----------------------------------------------------------------------------
(* Vocabulary of the properties: canonical order and ordinals in a store.  *)

\* a comes strictly before b in traversal order: book, then chapter, then verse.
Precedes(a, b) ==
    \/ a.book < b.book
    \/ a.book = b.book /\ a.chapter < b.chapter
    \/ a.book = b.book /\ a.chapter = b.chapter /\ a.verse < b.verse

\* ordinal_of: 1 + the number of stored verses strictly preceding t.
OrdinalOf(rows, t) == 1 + Cardinality({r \in rows : Precedes(r, t)})

\* The last word of a text: what follows its last space.
LastWord(s) ==
    LET spaces == {i \in 1..Len(s) : s[i] = " "}
        last == IF spaces = {} THEN 0 ELSE CHOOSE i \in spaces : \A j \in spaces : j <= i
    IN SubSeq(s, last + 1, Len(s))

\* The passage call reached the parser and the parser accepted both texts.
PassageAccepted ==
    /\ op.name = "passage"
    /\ Len(out.sent) = 2
    /\ Parses(out.sent[1])
    /\ Parses(out.sent[2])

\* The span length the parser reports for the call, and the start's ordinal.
ReportedLength == PassageLen(out.sent[1], out.sent[2])
StartOrdinal == OrdinalOf(store, BibleVerse(out.sent[1]))

\* The reference texts of the call, in the order they go to the parser.
GivenTexts ==
    IF op.name = "verse" THEN <<op.start>>
    ELSE <<op.start, IF op.end = NoReference THEN op.start ELSE op.end>>

----------------------------------------------------------------------------
(* Properties of the resolver.                                             *)

\* C1: for every store and every accepted start/end pair, passage returns the
\* verses whose ordinals are start_ordinal .. start_ordinal+L-1, ascending,
\* L being the parser's span length and start_ordinal = ordinal_of(start).
C1_PassageIsOrdinalRun ==
    PassageAccepted =>
        /\ out.kind = "ok"
        /\ Len(out.rows) = (IF ReportedLength > 0 THEN ReportedLength ELSE 0)
        /\ \A i \in 1..Len(out.rows) :
               OrdinalOf(store, out.rows[i]) = StartOrdinal + i - 1

\* C2: a passage whose ordinal range runs past the last stored verse fails with
\* NotFound (DoesNotExist) and never returns a shorter sequence.
C2_PassagePastEndNotFound ==
    (/\ PassageAccepted
     /\ ReportedLength >= 1
     /\ StartOrdinal + ReportedLength - 1 > Cardinality(store))
        => out.kind = "DoesNotExist"

\* C3: the translation code is appended to a reference text exactly when the
\* text does not already end with the code as its last word.
C3_QualifierAppendedIffMissing ==
    (/\ op.name \in {"verse", "passage"}
     /\ translation # NoTranslation
     /\ out.sent # << >>)
        => \A i \in 1..Len(out.sent) :
               out.sent[i] = (IF LastWord(GivenTexts[i]) = translation
                              THEN GivenTexts[i]
                              ELSE GivenTexts[i] \o <<" ">> \o translation)

\* C5: for a reference x that names a stored verse, passage(x) and passage(x, x)
\* return exactly one verse, the one verse(x) returns.
C5_SinglePassageIsVerse ==
    (/\ op.name = "passage"
     /\ op.end \in {NoReference, op.start}
     /\ verse(store, translation, op.start).kind = "ok")
        => /\ out.kind = "ok"
           /\ Len(out.rows) = 1
           /\ out.rows = verse(store, translation, op.start).rows

C5_Witness ==
    /\ op.name = "passage"
    /\ op.end = NoReference
    /\ Cardinality(store) >= 3
    /\ verse(store, translation, op.start).kind = "ok"
    /\ Len(out.rows) = 1
    /\ out.rows[1].pk > 1
    /\ out.rows[1].pk + 1 \in Pks(store)

\* C10: when the parser accepts the pair but reports a span length of zero or
\* less, passage fails with InvalidReference and returns nothing.
C10_NonPositiveLengthInvalid ==
    (PassageAccepted /\ ReportedLength <= 0) => out.kind = "InvalidReference"

----------------------------------------------------------------------------
(* Properties of the navigation helpers.                                   *)

\* C4: for every verse v of a translation that is not its first verse,
\* next_verse(prev_verse(v)) is v itself.
C4_NextOfPrevIsSelf ==
    (/\ trip.of \in store
     /\ \E q \in store : Precedes(q, trip.of))
        => /\ trip.prev = "return"
           /\ trip.next = "return"
           /\ trip.value = trip.of

\* C7: for a verse of book 1..66, next_book is none exactly for book 66 and is
\* otherwise book_id+1; prev_book is none exactly for book 1 and is otherwise
\* book_id-1; no book id outside 1..66 is ever looked up.
C7_BookNavigation ==
    /\ bookLookups \subseteq 1..NumBooks
    /\ (ret.helper = "next_book" /\ inst.book \in 1..NumBooks)
           => /\ ret.kind = "return"
              /\ ret.value = (IF inst.book = NumBooks THEN None ELSE Book(inst.book + 1))
    /\ (ret.helper = "prev_book" /\ inst.book \in 1..NumBooks)
           => /\ ret.kind = "return"
              /\ ret.value = (IF inst.book = 1 THEN None ELSE Book(inst.book - 1))

C7_Witness ==
    /\ inst.kind = "Verse"
    /\ inst.book = NumBooks
    /\ ret.helper = "next_book"
    /\ ret.value = None
    /\ bookLookups = {NumBooks - 1}

\* C8: next_verse and prev_verse never raise; when the adjacent pk has no
\* stored verse they return none.
C8_VerseNavigationNeverRaises ==
    /\ ret.helper = "next_verse"
           => /\ ret.kind = "return"
              /\ GetByPk(store, inst.pk + 1) = {} => ret.value = None
    /\ ret.helper = "prev_verse"
           => /\ ret.kind = "return"
              /\ GetByPk(store, inst.pk - 1) = {} => ret.value = None

\* C9: on one instance each of the four navigation helpers queries storage at
\* most once over any sequence of calls.
C9_EachHelperQueriesOnce == \A h \in Helpers : queries[h] <= 1

\* C9 as amended: on one instance next_verse queries storage at most once and
\* every later call returns the cached result (none included) without a query;
\* prev_verse does the same from the first call that returns, while a call that
\* raises DoesNotExist caches nothing; next_book and prev_book cache nothing and
\* query storage on every call that has an adjacent book.
C9_VerseHelpersMemoized ==
    /\ [](queries["next_verse"] <= 1)
    /\ [][(inst' = inst /\ inst # None) =>
            /\ _next_verse # Unset =>
                 /\ _next_verse' = _next_verse
                 /\ queries'["next_verse"] = queries["next_verse"]
                 /\ (ret' # ret /\ ret'.helper = "next_verse") =>
                        (ret'.kind = "return" /\ ret'.value = _next_verse /\ ret'.queried = 0)
            /\ _prev_verse # Unset =>
                 /\ _prev_verse' = _prev_verse
                 /\ queries'["prev_verse"] = queries["prev_verse"]
                 /\ (ret' # ret /\ ret'.helper = "prev_verse") =>
                        (ret'.kind = "return" /\ ret'.value = _prev_verse /\ ret'.queried = 0)
            /\ (ret'.helper = "prev_verse" /\ ret'.kind = "DoesNotExist") =>
                   _prev_verse' = Unset
            /\ (queries' # queries \/ ret' # ret) =>
                 /\ (ret'.helper = "next_book" /\ inst.book < NumBooks) =>
                        queries'["next_book"] = queries["next_book"] + 1
                 /\ (ret'.helper = "prev_book" /\ inst.book > 1) =>
                        queries'["prev_book"] = queries["prev_book"] + 1
          ]_vars

C9_Witness ==
    /\ ret.helper = "next_verse"
    /\ ret.queried = 0
    /\ ret.value # None
    /\ queries["next_verse"] = 1
    /\ queries["next_book"] = MaxCalls
    /\ _prev_verse # Unset

----------------------------------------------------------------------------
(* Properties of the registry.                                             *)

IsPrefix(a, b) == Len(a) <= Len(b) /\ SubSeq(b, 1, Len(a)) = a

\* C6: after any sequence of register_version calls the registry holds each
\* registered translation exactly once; registering what is already registered
\* changes nothing, and no entry is ever removed.
C6_RegistryIdempotent ==
    /\ [](\A i, j \in 1..Len(versions) : versions[i] = versions[j] => i = j)
    /\ [][/\ IsPrefix(versions, versions')
          /\ \A i \in 1..Len(lastArgs') : ContentTypePk(lastArgs'[i]) \in Range(versions')
          /\ (\A i \in 1..Len(lastArgs') : ContentTypePk(lastArgs'[i]) \in Range(versions))
                 => versions' = versions
         ]_registryVars

C6_Witness ==
    /\ Len(versions) >= 3
    /\ Len(lastArgs) = 2
    /\ lastArgs[1] = lastArgs[2]
    /\ ContentTypePk(lastArgs[1]) = versions[Len(versions)]

====
